---- MODULE Spec2Model ----
(***************************************************************************)
(* Ticket-authorization (TA) lifecycle of the Afip client and the request  *)
(* path of its two billing adapters (wsfe: ElectronicBilling, wsfex:       *)
(* ExportElectronicBilling).                                               *)
(*                                                                         *)
(* Every asynchronous function is cut at its awaits: one action per await  *)
(* that completes, carrying the synchronous code that follows it up to the *)
(* next await.  Time is in milliseconds, as in the code.                   *)
(***************************************************************************)
EXTENDS Integers, Sequences, FiniteSets, TLC

VARIABLES
    store,      \* the bucket: key -> object (absent, or a body)
    now,        \* Date.now()
    pc,         \* per caller: where its GetServiceTA / executeRequest stands
    cfg,        \* per caller: the options of its Afip instance and the service asked
    firstTry,   \* per caller: the firstTry parameter of the running GetServiceTA
    tra,        \* per caller: the loginTicketRequest built by CreateServiceTA
    res,        \* per caller: the parsed login response held by CreateServiceTA
    out,        \* per caller: how the call ended (a value returned or an error thrown)
    log,        \* per caller: bookkeeping of the running top-level call
    nextId,     \* the next ticket the WSAA will issue
    issued,     \* every loginticketresponse the WSAA has returned so far
    gw,         \* per caller: the executeRequest that is running, if any
    job,        \* per caller: the voucher method that is running, if any
    afip        \* the billing services: what they have authorized so far

vars == <<store, now, pc, cfg, firstTry, tra, res, out, log, nextId, issued, gw, job, afip>>

---------------------------------------------------------------------------
(* Bounds *)

MaxTicks == 2
MaxIssue == 2
MaxArr == 2
MaxWrites == 2

Callers == {"a", "b"}

\* the caller of the specifications that follow one call alone
GwCallers == {"a"}

---------------------------------------------------------------------------
(* Values of the program *)

\* new Date(Date.now() + 600000)
SafetyMargin == 600000

TimeStep == SafetyMargin \div 2

\* JavaScript's undefined, where a number is expected
Undefined == 0

Null == [isNull |-> TRUE]

\* JavaScript's undefined, where an object is expected: what an async function
\* that ends without a return resolves to
NoValue == [isUndefined |-> TRUE]

\* if (value)
Truthy(value) == value # Null /\ value # NoValue

CUITs == {"20111111112", "27222222223"}

Services == {"wsfe", "wsfex", "wsfe-production"}

\* what the WSAA may put as the validity of a ticket it issues
Validities == {SafetyMargin, SafetyMargin + SafetyMargin \div 10}

\* obj[field] in JavaScript: undefined when the property is missing
Get(obj, field) == IF field \in DOMAIN obj THEN obj[field] ELSE Undefined

---------------------------------------------------------------------------
(* Afip: the ticket file name *)

taFilePath(CUIT, service, production) ==
    "TA-" \o CUIT \o "-" \o service \o (IF production THEN "-production" ELSE "") \o ".json"

\* CreateServiceTA builds the name of the file it writes by itself
taFileName(CUIT, service, production) ==
    "TA-" \o CUIT \o "-" \o service \o (IF production THEN "-production" ELSE "") \o ".json"

Configs == [CUIT : CUITs, service : Services, production : BOOLEAN]

KeyOf(c) == taFilePath(c.CUIT, c.service, c.production)

\* the key CreateServiceTA writes under
WriteKeyOf(c) == taFileName(c.CUIT, c.service, c.production)

Keys == {KeyOf(c) : c \in Configs}

---------------------------------------------------------------------------
(* S3Connection *)

NoObject == [exists |-> FALSE]

Object(body) == [exists |-> TRUE, body |-> body]

\* JSON.stringify / JSON.parse of a login response: the text of a value that
\* has only strings, numbers, arrays and objects in it
JSONstringify(value) == [json |-> value]

JSONparse(text) == text.json

\* a plausible slip: an object that exists is updated field by field, and
\* keeps its header
writeFileS3_Merge(bucket, fileName, body) ==
    IF bucket[fileName].exists
    THEN [bucket EXCEPT ![fileName] =
            Object([json |-> [f \in DOMAIN body.json |->
                                IF f = "header" /\ "header" \in DOMAIN bucket[fileName].body.json
                                THEN bucket[fileName].body.json.header
                                ELSE body.json[f]]])]
    ELSE [bucket EXCEPT ![fileName] = Object(body)]

\* a plausible slip: an object that exists is left as it is
writeFileS3_Once(bucket, fileName, body) ==
    IF bucket[fileName].exists THEN bucket
    ELSE [bucket EXCEPT ![fileName] = Object(body)]

\* the bucket after PutObject: the whole object is replaced
writeFileS3(bucket, fileName, body) == [bucket EXCEPT ![fileName] = Object(body)]

\* what GetObject comes to; fault: the transport failed
GetObject(bucket, fileName, fault) ==
    IF fault THEN [threw |-> TRUE, name |-> "ServiceUnavailable",
                   message |-> "ServiceUnavailable"]
    ELSE IF ~bucket[fileName].exists
         THEN [threw |-> TRUE, name |-> "NoSuchKey",
               message |-> "The specified key does not exist."]
         ELSE [threw |-> FALSE, value |-> JSONparse(bucket[fileName].body)]

\* S3Connection.readFileS3 of Class/S3Connection.js: the catch logs the error
\* and throws it on, whatever it is
readFileS3(bucket, fileName, fault) ==
    LET response == GetObject(bucket, fileName, fault)
    IN  IF response.threw
        THEN [threw |-> TRUE, message |-> response.message]
        ELSE response

\* S3Connection.readFileS3 of the adapter built with (s3Config, bucket,
\* folder): the catch throws the error on unless its name is NoSuchKey's, and
\* the function then ends without a return
readFileS3Folder(bucket, fileName, fault) ==
    LET response == GetObject(bucket, fileName, fault)
    IN  IF response.threw
        THEN IF ~(response.name = "NoSuchKey")
             THEN [threw |-> TRUE, message |-> response.message]
             ELSE [threw |-> FALSE, value |-> NoValue]
        ELSE response

\* the two S3Connection classes of the repository
Backends == {"S3Connection", "S3ConnectionFolder"}

readFile(backend, bucket, fileName, fault) ==
    IF backend = "S3Connection" THEN readFileS3(bucket, fileName, fault)
    ELSE readFileS3Folder(bucket, fileName, fault)

---------------------------------------------------------------------------
(* The login ticket response, as xml2js hands it over: attrkey is 'header', *)
(* so header holds the attributes first and the <header> element second.    *)

\* the loginticketresponse of ticket id, in the shape the exchange came to
Ticket(id, expirationtime, shape) ==
    LET attrs == [version |-> "1.0"]
        elem  == [uniqueid |-> id, expirationtime |-> expirationtime]
        hdr   == IF shape = "noHeader" THEN <<attrs>> ELSE <<attrs, elem>>
    IN  CASE shape = "noCredentials" -> [header |-> hdr]
          [] shape = "noToken"       -> [header |-> hdr, credentials |-> [sign |-> 0 - id]]
          [] OTHER                   -> [header |-> hdr,
                                         credentials |-> [token |-> id, sign |-> 0 - id]]

\* a plausible slip: the first entry of header, the attributes, taken for the
\* <header> element
HeaderAt1_First(afipDataToken) ==
    IF "header" \in DOMAIN afipDataToken /\ Len(afipDataToken.header) >= 1
    THEN afipDataToken.header[1] ELSE Null

\* afipDataToken.header[1]: the second entry of header, when there is one
HeaderAt1(afipDataToken) ==
    IF "header" \in DOMAIN afipDataToken /\ Len(afipDataToken.header) >= 2
    THEN afipDataToken.header[2] ELSE Null

Complete(t) ==
    /\ t # Null
    /\ HeaderAt1(t) # Null
    /\ "expirationtime" \in DOMAIN HeaderAt1(t)
    /\ "credentials" \in DOMAIN t
    /\ {"token", "sign"} \subseteq DOMAIN t.credentials

---------------------------------------------------------------------------
(* Afip.prototype.GetServiceTA *)

JSBoolean(b) == [t |-> "boolean", v |-> b]

JSString(s) == [t |-> "string", v |-> s]

JSNumber(n) == [t |-> "number", v |-> n]

JSUndefined == [t |-> "undefined", v |-> 0]

\* a === b
StrictEquals(a, b) == a.t = b.t /\ a.v = b.v

\* a plausible slip: the catch throws every error on
CatchRethrows_Always(e) == TRUE

\* if(!e.message === 'The specified key does not exist.') throw(e)
CatchRethrows(e) ==
    StrictEquals(JSBoolean(e.message = ""), JSString("The specified key does not exist."))

\* a plausible slip: no stored ticket is ever taken as valid
StillValid_Never(actualTime, expirationTime) == FALSE

\* a plausible slip: the comparison turned around
StillValid_Reversed(actualTime, expirationTime) == expirationTime < actualTime

\* a plausible slip: the boundary counted as still valid
StillValid_Inclusive(actualTime, expirationTime) == actualTime <= expirationTime

\* actualTime < expirationTime
StillValid(actualTime, expirationTime) == actualTime < expirationTime

\* a plausible slip: the token put where the sign belongs
Returned_TokenTwice(token, sign) == [kind |-> "return", token |-> token, sign |-> token]

Returned(token, sign) == [kind |-> "return", token |-> token, sign |-> sign]

\* the same, with the time of the return noted
ReturnedAt(o, time) == [kind |-> "return", token |-> o.token, sign |-> o.sign, at |-> time]

Thrown(error, cause) == [kind |-> "throw", error |-> error, cause |-> cause]

Running == [kind |-> "none"]

AuthorizationError == "Error getting Token Autorization"

\* a plausible slip: the firstTry flag is not looked at, so a second pass
\* that finds no valid ticket goes on to CreateServiceTA again
Validate_NoFlag(afipDataToken, time, first) ==
    IF Truthy(afipDataToken)
    THEN IF HeaderAt1(afipDataToken) = Null
         THEN Thrown("TypeError", "")
         ELSE IF StillValid(time + SafetyMargin, Get(HeaderAt1(afipDataToken), "expirationtime"))
              THEN IF "credentials" \notin DOMAIN afipDataToken
                   THEN Thrown("TypeError", "")
                   ELSE Returned(Get(afipDataToken.credentials, "token"),
                                 Get(afipDataToken.credentials, "sign"))
              ELSE Running
    ELSE Running

\* what GetServiceTA does with the value it read: return the credentials,
\* throw, or (Running) go on to CreateServiceTA
Validate(afipDataToken, time, first) ==
    IF Truthy(afipDataToken)
    THEN IF HeaderAt1(afipDataToken) = Null
         THEN Thrown("TypeError", "")
         ELSE IF StillValid(time + SafetyMargin, Get(HeaderAt1(afipDataToken), "expirationtime"))
              THEN IF "credentials" \notin DOMAIN afipDataToken
                   THEN Thrown("TypeError", "")
                   ELSE Returned(Get(afipDataToken.credentials, "token"),
                                 Get(afipDataToken.credentials, "sign"))
              ELSE IF first = FALSE THEN Thrown(AuthorizationError, "") ELSE Running
    ELSE IF first = FALSE THEN Thrown(AuthorizationError, "") ELSE Running

\* the value GetServiceTA goes on with after the try/catch around readFileS3;
\* Thrown when the catch throws the error on
AfterCatch(r) ==
    IF r.threw
    THEN IF CatchRethrows(r) THEN Thrown(r.message, "") ELSE Null
    ELSE r.value

IsThrown(v) == "kind" \in DOMAIN v /\ v.kind = "throw"

\* the spec's ticket invariant: usable only while now + safetyMargin < expiresAt
Usable(t, time) ==
    /\ Complete(t)
    /\ time + SafetyMargin < HeaderAt1(t).expirationtime

\* what the bucket holds under a key, whatever a read of it comes to
Stored(bucket, fileName) ==
    IF bucket[fileName].exists THEN JSONparse(bucket[fileName].body) ELSE Null

\* how a value found in the bucket stands at a time
Standing(t, time) ==
    CASE t = Null        -> "absent"
      [] Usable(t, time) -> "usable"
      [] Complete(t)     -> "expired"
      [] OTHER           -> "malformed"

\* bookkeeping of one top-level call: the completed reads, loginCms calls and
\* writes, how the stored value stood at the first read, whether the first
\* and the second read failed in the transport, what reading the certificate
\* and the key and signing came to, what the login came to, and the keys of
\* the last read and the last write
NoLog == [reads |-> 0, logins |-> 0, writes |-> 0,
          first |-> "none", fault1 |-> FALSE, fault2 |-> FALSE, sign |-> "none",
          login |-> "none", readKey |-> "", writeKey |-> ""]

NoTra == [uniqueId |-> 0, generationTime |-> 0, expirationTime |-> 0, service |-> ""]

\* the loginTicketRequest CreateServiceTA builds from new Date()
LoginTicketRequest(date, service) ==
    [uniqueId |-> date \div 1000,
     generationTime |-> date - 600000,
     expirationTime |-> date + 600000,
     service |-> service]

\* the ticket the original object of a key holds: usable at time 0, at the
\* boundary one step later
OriginalTicket == Ticket(1, SafetyMargin + TimeStep, "ok")

\* a ticket an earlier run left behind: it expired one hour before time 0
ExpiredTicket == Ticket(0, 0 - 6 * SafetyMargin, "ok")

\* the login ticket responses the WSAA may answer with at a time
LoginResponses(id, time) ==
    {Ticket(id, time + v, "ok") : v \in Validities}
    \cup {Ticket(id, time + SafetyMargin + TimeStep, shape) :
            shape \in {"noHeader", "noCredentials", "noToken"}}

\* the options and the service of the calls of the main specification
MainConfig == [CUIT |-> "20111111112", service |-> "wsfe", production |-> FALSE]

NoGw == [family |-> "", operation |-> "", params |-> <<>>, given |-> <<>>, stage |-> "",
         results |-> Null, info |-> Running]

\* no voucher method running
NoJob == [method |-> "", family |-> "", step |-> "", data |-> <<>>, number |-> 0,
          sent |-> <<>>, retried |-> FALSE, result |-> Running]

\* the billing services before any voucher: the last number authorized by
\* each service, the last request Id of wsfex, and what has been submitted
NoVouchers == [last |-> [f \in {"wsfe", "wsfex"} |-> 0], lastId |-> 0, submitted |-> <<>>]

InitCallers ==
    /\ now = 0
    /\ pc = [c \in Callers |-> "idle"]
    /\ firstTry = [c \in Callers |-> TRUE]
    /\ tra = [c \in Callers |-> NoTra]
    /\ res = [c \in Callers |-> Null]
    /\ out = [c \in Callers |-> Running]
    /\ log = [c \in Callers |-> NoLog]
    /\ nextId = 2
    /\ issued = {}
    /\ gw = [c \in Callers |-> NoGw]
    /\ job = [c \in Callers |-> NoJob]
    /\ afip = NoVouchers

Init ==
    /\ \E o \in {NoObject, Object(JSONstringify(OriginalTicket)),
                  Object(JSONstringify(ExpiredTicket))} :
         store = [k \in Keys |-> IF k = KeyOf(MainConfig) THEN o ELSE NoObject]
    /\ cfg = [c \in Callers |-> MainConfig]
    /\ InitCallers

\* Date.now() moves on
Tick ==
    /\ now < MaxTicks * TimeStep
    /\ now' = now + TimeStep
    /\ UNCHANGED <<store, pc, cfg, firstTry, tra, res, out, log, nextId, issued, gw, job, afip>>

\* afip.GetServiceTA(service) is called on an Afip with these options: up to
\* the await of readFileS3
Call(c, config) ==
    /\ pc[c] = "idle"
    /\ cfg' = [cfg EXCEPT ![c] = config]
    /\ pc' = [pc EXCEPT ![c] = "read"]
    /\ firstTry' = [firstTry EXCEPT ![c] = TRUE]
    /\ out' = [out EXCEPT ![c] = Running]
    /\ log' = [log EXCEPT ![c] = NoLog]
    /\ UNCHANGED <<store, now, tra, res, nextId, issued, gw, job, afip>>

GetServiceTA(c) == Call(c, MainConfig)

\* readFileS3 settles; GetServiceTA runs on to its return, its throw, or the
\* first await of CreateServiceTA
ReadDone(c) ==
    /\ pc[c] = "read"
    /\ \E backend \in Backends, fault \in BOOLEAN :
         LET r == readFile(backend, store, KeyOf(cfg[c]), fault)
             v == AfterCatch(r)
             o == IF IsThrown(v) THEN v ELSE Validate(v, now, firstTry[c])
             pass == log[c].reads + 1
         IN  /\ log' = [log EXCEPT ![c] =
                          [@ EXCEPT !.reads = pass,
                                    !.first = IF pass = 1
                                              THEN Standing(Stored(store, KeyOf(cfg[c])), now)
                                              ELSE @,
                                    !.fault1 = IF pass = 1 THEN fault ELSE @,
                                    !.fault2 = IF pass = 2 THEN fault ELSE @,
                                    !.readKey = KeyOf(cfg[c])]]
             /\ IF o = Running
                THEN /\ pc' = [pc EXCEPT ![c] = "certkey"]
                     /\ tra' = [tra EXCEPT ![c] = LoginTicketRequest(now, cfg[c].service)]
                     /\ out' = out
                ELSE /\ pc' = [pc EXCEPT ![c] = "done"]
                     /\ out' = [out EXCEPT ![c] =
                                  IF o.kind = "return" THEN ReturnedAt(o, now) ELSE o]
                     /\ tra' = tra
    /\ UNCHANGED <<store, now, cfg, firstTry, res, nextId, issued, gw, job, afip>>

\* a plausible slip: the login goes out whatever reading and signing came to
CertKey_Unchecked(c) ==
    /\ pc[c] = "certkey"
    /\ \E ok \in BOOLEAN :
         log' = [log EXCEPT ![c].sign = IF ok THEN "ok" ELSE "failed"]
    /\ pc' = [pc EXCEPT ![c] = "login"]
    /\ UNCHANGED <<store, now, cfg, firstTry, tra, res, out, nextId, issued, gw, job, afip>>

\* CreateServiceTA: the certificate and the key are read and the request is
\* signed; a failure rejects CreateServiceTA
CertKey(c) ==
    /\ pc[c] = "certkey"
    /\ \E ok \in BOOLEAN :
         IF ok
         THEN /\ pc' = [pc EXCEPT ![c] = "login"]
              /\ out' = out
              /\ tra' = tra
              /\ log' = [log EXCEPT ![c].sign = "ok"]
         ELSE /\ pc' = [pc EXCEPT ![c] = "done"]
              /\ out' = [out EXCEPT ![c] = Thrown(AuthorizationError, "credentials")]
              /\ tra' = [tra EXCEPT ![c] = NoTra]
              /\ log' = [log EXCEPT ![c].sign = "failed"]
    /\ UNCHANGED <<store, now, cfg, firstTry, res, nextId, issued, gw, job, afip>>

\* CreateServiceTA: loginCmsAsync settles and its return is parsed
Login(c) ==
    /\ pc[c] = "login"
    /\ tra' = [tra EXCEPT ![c] = NoTra]
    /\ \/ /\ \E cause \in {"transport", "unparseable"} :
               /\ out' = [out EXCEPT ![c] = Thrown(AuthorizationError, cause)]
               /\ log' = [log EXCEPT ![c].logins = @ + 1, ![c].login = cause]
          /\ pc' = [pc EXCEPT ![c] = "done"]
          /\ UNCHANGED <<res, nextId, issued>>
       \/ /\ nextId - 2 < MaxIssue
          /\ \E t \in LoginResponses(nextId, now) :
               /\ res' = [res EXCEPT ![c] = t]
               /\ issued' = issued \cup {t}
               /\ log' = [log EXCEPT ![c].logins = @ + 1,
                                     ![c].login = IF Complete(t) THEN "complete"
                                                  ELSE "incomplete"]
          /\ nextId' = nextId + 1
          /\ pc' = [pc EXCEPT ![c] = "write"]
          /\ out' = out
    /\ UNCHANGED <<store, now, cfg, firstTry, gw, job, afip>>

\* a plausible slip: after the write the credentials of the login response
\* are returned at once, with no second read
WriteDone_NoReread(c) ==
    /\ pc[c] = "write"
    /\ res' = [res EXCEPT ![c] = Null]
    /\ \E ok \in BOOLEAN :
         IF ok
         THEN /\ store' = writeFileS3(store, WriteKeyOf(cfg[c]), JSONstringify(res[c]))
              /\ log' = [log EXCEPT ![c].writes = @ + 1, ![c].writeKey = WriteKeyOf(cfg[c])]
              /\ out' = [out EXCEPT ![c] =
                           IF Complete(res[c])
                           THEN ReturnedAt(Returned(res[c].credentials.token,
                                                    res[c].credentials.sign), now)
                           ELSE Thrown(AuthorizationError, "undefined")]
         ELSE /\ out' = [out EXCEPT ![c] = Thrown(AuthorizationError, "undefined")]
              /\ UNCHANGED <<store, log>>
    /\ pc' = [pc EXCEPT ![c] = "done"]
    /\ UNCHANGED <<now, cfg, firstTry, tra, nextId, issued, gw, job, afip>>

\* CreateServiceTA: writeFileS3 settles; on success GetServiceTA calls itself
\* with firstTry = false, up to the await of readFileS3
WriteDone(c) ==
    /\ pc[c] = "write"
    /\ res' = [res EXCEPT ![c] = Null]
    /\ \E ok \in BOOLEAN :
         IF ok
         THEN /\ store' = writeFileS3(store, WriteKeyOf(cfg[c]), JSONstringify(res[c]))
              /\ log' = [log EXCEPT ![c].writes = @ + 1, ![c].writeKey = WriteKeyOf(cfg[c])]
              /\ pc' = [pc EXCEPT ![c] = "read"]
              /\ firstTry' = [firstTry EXCEPT ![c] = FALSE]
              /\ out' = out
         ELSE /\ pc' = [pc EXCEPT ![c] = "done"]
              /\ out' = [out EXCEPT ![c] = Thrown(AuthorizationError, "undefined")]
              /\ UNCHANGED <<store, log, firstTry>>
    /\ UNCHANGED <<now, cfg, tra, nextId, issued, gw, job, afip>>

Next ==
    \/ Tick
    \/ \E c \in Callers : GetServiceTA(c)
    \/ \E c \in Callers : ReadDone(c)
    \/ \E c \in Callers : CertKey(c)
    \/ \E c \in Callers : Login(c)
    \/ \E c \in Callers : WriteDone(c)

Spec == Init /\ [][Next]_vars

---------------------------------------------------------------------------
(* Claims on the ticket lifecycle *)

\* every response the WSAA gave, and the ticket the bucket started with
Tickets == issued \cup {OriginalTicket, ExpiredTicket}

HasCredentials(t) == "credentials" \in DOMAIN t

\* the ticket carries exactly the credentials o returns
CredentialsOf(t, o) ==
    /\ HasCredentials(t)
    /\ Get(t.credentials, "token") = o.token
    /\ Get(t.credentials, "sign") = o.sign

\* C1: the credentials GetServiceTA returns are never those of a ticket whose
\* expiration time is at or before now + safetyMargin at the time of the
\* return, the boundary included; and a call whose first read found an
\* expired ticket returns only after CreateServiceTA has run.
C1_StaleNeverReturned ==
    \A c \in Callers :
        out[c].kind = "return" =>
            /\ \A t \in Tickets :
                 CredentialsOf(t, out[c]) =>
                    /\ HeaderAt1(t) # Null
                    /\ HeaderAt1(t).expirationtime > out[c].at + SafetyMargin
            /\ log[c].first = "expired" => log[c].logins = 1 /\ log[c].writes = 1

\* a call that found an expired ticket, refreshed and then returned
C1_Witness ==
    \E c \in Callers :
        /\ out[c].kind = "return"
        /\ log[c].first = "expired"
        /\ log[c].logins = 1

\* C2: when the first read of a call succeeds on a stored ticket whose
\* expiration time is after now + safetyMargin, the call returns that
\* ticket's token and sign at once: no loginCms call, no write to the bucket,
\* and the call does nothing afterwards.
C2_FreshReturnedWithoutIssuer ==
    [][\A c \in Callers :
         /\ ( /\ pc[c] = "read"
              /\ pc'[c] # "read"
              /\ log[c].reads = 0
              /\ ~log'[c].fault1
              /\ Usable(Stored(store, KeyOf(cfg[c])), now) )
            => /\ pc'[c] = "done"
               /\ out'[c].kind = "return"
               /\ out'[c].token = Stored(store, KeyOf(cfg[c])).credentials.token
               /\ out'[c].sign = Stored(store, KeyOf(cfg[c])).credentials.sign
               /\ log'[c].logins = 0
               /\ log'[c].writes = 0
               /\ store' = store
               /\ issued' = issued
         /\ pc[c] = "done" => pc'[c] = "done" /\ log'[c] = log[c] /\ out'[c] = out[c]
      ]_vars

\* a call that returned a usable stored ticket from its first read
C2_Witness ==
    \E c \in Callers :
        /\ log[c].first = "usable"
        /\ ~log[c].fault1
        /\ out[c].kind = "return"
        /\ log[c].reads = 1
        /\ log[c].logins = 0

\* C3: a read of the bucket that fails in the transport (any error but
\* not-found) makes the call fail with that error at once, with no loginCms
\* call and no write.
C3_StoreErrorPropagates ==
    \A c \in Callers :
        log[c].fault1 =>
            /\ pc[c] = "done"
            /\ out[c].kind = "throw"
            /\ out[c].error = "ServiceUnavailable"
            /\ log[c].logins = 0
            /\ log[c].writes = 0

\* the bounds of one top-level call: one loginCms call, one write, two reads
OneRefresh ==
    \A c \in Callers :
        /\ log[c].logins <= 1
        /\ log[c].writes <= 1
        /\ log[c].reads <= 2

\* C4: one top-level call runs CreateServiceTA at most once and reads at most
\* twice, and a call that has written and then ends without returning
\* credentials ends with 'Error getting Token Autorization'.
C4_RefreshAtMostOnce ==
    /\ OneRefresh
    /\ \A c \in Callers :
         (pc[c] = "done" /\ log[c].writes = 1 /\ out[c].kind # "return")
            => out[c] = Thrown(AuthorizationError, "")

\* C5: every object of the bucket holds a complete ticket: token, sign and
\* expiration time all present.
C5_OnlyCompleteWritten ==
    \A k \in Keys : store[k].exists => Complete(Stored(store, k))

\* C9: whatever the interleaving, an object of the bucket is absent, the
\* original ticket, or one login response as a whole, and every call that
\* did not return from its first read made its own loginCms call and its
\* own write before it returned.
C9_LastWriterWins ==
    /\ \A k \in Keys : Stored(store, k) \in {Null} \cup Tickets
    /\ \A c \in Callers :
         (out[c].kind = "return" /\ log[c].reads = 2)
            => log[c].logins = 1 /\ log[c].writes = 1

\* both callers found the ticket expired, both refreshed and wrote, and the
\* bucket holds the response of one of them
C9_Witness ==
    /\ \A c \in Callers :
         /\ log[c].first = "expired"
         /\ log[c].logins = 1
         /\ log[c].writes = 1
         /\ out[c].kind = "return"
    /\ Stored(store, KeyOf(MainConfig)) \in issued
    /\ Cardinality(issued) = 2

\* C10: a login exchange that fails (transport error, unparseable or
\* incomplete response) ends the call with 'Error getting Token
\* Autorization', and never with credentials returned.
C10_LoginFailureSurfaces ==
    \A c \in Callers :
        (pc[c] = "done" /\ log[c].login \in {"transport", "unparseable", "incomplete"})
            => /\ out[c].kind = "throw"
               /\ out[c].error = AuthorizationError

\* C11: a call whose certificate or key could not be read, or whose signing
\* failed, has ended with 'Error getting Token Autorization', with no
\* loginCms call made, no write made and no login response held.
C11_SigningFailureBeforeLogin ==
    \A c \in Callers :
        log[c].sign = "failed" =>
            /\ pc[c] = "done"
            /\ out[c].kind = "throw"
            /\ out[c].error = AuthorizationError
            /\ log[c].logins = 0
            /\ log[c].writes = 0
            /\ res[c] = Null

\* a call that went on to CreateServiceTA and failed at the certificate, the
\* key or the signing
C11_Witness ==
    \E c \in Callers :
        /\ log[c].sign = "failed"
        /\ log[c].reads = 1
        /\ pc[c] = "done"

\* the causes CreateServiceTA may reject with
RefreshFailures == {"credentials", "transport", "unparseable", "undefined"}

\* C12: a call whose first read found no object under the key, the transport
\* working, does not fail at the read: it never returns from the first read,
\* it ends before its second read only by a failure of CreateServiceTA, and
\* when it returns it has made one loginCms call and one write and returns
\* the credentials of a ticket the WSAA issued.
C12_NotFoundRefreshes ==
    \A c \in Callers :
        (log[c].first = "absent" /\ ~log[c].fault1) =>
            /\ (pc[c] = "done" /\ log[c].reads = 1)
                  => /\ out[c].kind = "throw"
                     /\ out[c].error = AuthorizationError
                     /\ out[c].cause \in RefreshFailures
            /\ out[c].kind = "return"
                  => /\ log[c].reads = 2
                     /\ log[c].logins = 1
                     /\ log[c].writes = 1
                     /\ \E t \in issued : CredentialsOf(t, out[c])

\* a call that found no object, refreshed and returned
C12_Witness ==
    \E c \in Callers :
        /\ log[c].first = "absent"
        /\ ~log[c].fault1
        /\ out[c].kind = "return"
        /\ log[c].writes = 1

\* C14: a call whose first read found a ticket that has expired (one that
\* expired an hour before included), with the reads, the signing, the login
\* and the write all succeeding, ends having made exactly one loginCms call,
\* exactly one write and two reads.
C14_ExpiredRefreshedOnce ==
    \A c \in Callers :
        ( /\ pc[c] = "done"
          /\ log[c].first = "expired"
          /\ ~log[c].fault1
          /\ ~log[c].fault2
          /\ log[c].login = "complete"
          /\ out[c] # Thrown(AuthorizationError, "undefined") )
            => /\ log[c].logins = 1
               /\ log[c].writes = 1
               /\ log[c].reads = 2

\* a call made at time 0 on the ticket that expired an hour before: it
\* refreshed once and returned at that same time
C14_Witness ==
    \E c \in Callers :
        /\ pc[c] = "done"
        /\ log[c].first = "expired"
        /\ ~log[c].fault1
        /\ ~log[c].fault2
        /\ log[c].logins = 1
        /\ log[c].writes = 1
        /\ out[c].kind = "return"
        /\ out[c].at = 0

\* the login response has its <header> element and both credentials
Whole(t) ==
    /\ Len(t.header) >= 2
    /\ "credentials" \in DOMAIN t
    /\ {"token", "sign"} \subseteq DOMAIN t.credentials

\* the expiration time of a whole login response, as the WSAA gave it
ExpiresAt(t) == t.header[2].expirationtime

\* C15: a call on the test environment that found no stored ticket, with the
\* reads, the signing and the write succeeding and the WSAA having issued one
\* single ticket, which is still valid beyond the margin, has returned the
\* token and the sign of that ticket.
C15_IssuedCredentialsReturned ==
    \A c \in Callers :
        \A t \in issued :
            ( /\ pc[c] = "done"
              /\ ~cfg[c].production
              /\ log[c].first = "absent"
              /\ ~log[c].fault1
              /\ ~log[c].fault2
              /\ log[c].writes = 1
              /\ issued = {t}
              /\ Whole(t)
              /\ now + SafetyMargin < ExpiresAt(t) )
                => /\ out[c].kind = "return"
                   /\ out[c].token = t.credentials.token
                   /\ out[c].sign = t.credentials.sign

\* a call that found nothing, was issued a ticket valid for 660 seconds and
\* returned its credentials
C15_Witness ==
    \E c \in Callers :
        \E t \in issued :
            /\ log[c].first = "absent"
            /\ ~log[c].fault1
            /\ log[c].writes = 1
            /\ issued = {t}
            /\ out[c].kind = "return"
            /\ CredentialsOf(t, out[c])
            /\ Whole(t)
            /\ ExpiresAt(t) = out[c].at + 660 * 1000

\* C20: two calls whose first reads both succeeded on a ticket valid beyond
\* the margin both return from that read, with the same token and the same
\* sign, and neither has made a loginCms call or a write: the WSAA has
\* issued nothing and the bucket holds the ticket they returned.
C20_FreshTwiceSame ==
    \A c1, c2 \in Callers :
        ( /\ c1 # c2
          /\ log[c1].first = "usable" /\ ~log[c1].fault1
          /\ log[c2].first = "usable" /\ ~log[c2].fault1 )
            => /\ out[c1].kind = "return"
               /\ out[c2].kind = "return"
               /\ out[c1].token = out[c2].token
               /\ out[c1].sign = out[c2].sign
               /\ log[c1].logins = 0 /\ log[c1].writes = 0 /\ log[c1].reads = 1
               /\ log[c2].logins = 0 /\ log[c2].writes = 0 /\ log[c2].reads = 1
               /\ issued = {}
               /\ CredentialsOf(Stored(store, KeyOf(cfg[c1])), out[c1])

\* two calls in succession, both returned from their first read
C20_Witness ==
    \E c1, c2 \in Callers :
        /\ c1 # c2
        /\ log[c1].first = "usable" /\ ~log[c1].fault1
        /\ log[c2].first = "usable" /\ ~log[c2].fault1
        /\ out[c1].kind = "return"
        /\ out[c2].kind = "return"

\* the steps of one call, as pairs of places: the read (with its validation),
\* the signing, the login, the write
Order ==
    {<<"idle", "read">>, <<"read", "certkey">>, <<"read", "done">>,
     <<"certkey", "login">>, <<"certkey", "done">>,
     <<"login", "write">>, <<"login", "done">>,
     <<"write", "read">>, <<"write", "done">>}

\* C23: within one call the steps come in the order read and validate, sign,
\* login, write, read and validate. The signing starts only from the first
\* read, the login only after the signing succeeded, a loginCms call is
\* counted only then and before any write, a write happens only after the
\* login has returned its response, a call ends at the write only by
\* throwing, and the second read ends the call.
C23_StepsInOrder ==
    [][\A c \in Callers :
         /\ pc'[c] # pc[c] => <<pc[c], pc'[c]>> \in Order
         /\ (pc[c] = "read" /\ pc'[c] = "certkey")
               => log[c].reads = 0 /\ log'[c].logins = 0 /\ log'[c].writes = 0
         /\ (pc[c] = "read" /\ pc'[c] # "read" /\ log[c].reads = 1) => pc'[c] = "done"
         /\ (pc[c] = "certkey" /\ pc'[c] = "login") => log'[c].sign = "ok"
         /\ log'[c].logins > log[c].logins
               => pc[c] = "login" /\ log[c].reads = 1 /\ log[c].writes = 0
         /\ (pc[c] = "login" /\ pc'[c] = "write") => res'[c] \in issued'
         /\ log'[c].writes > log[c].writes
               => /\ pc[c] = "write"
                  /\ log[c].logins = 1
                  /\ res[c] \in issued
                  /\ Stored(store', KeyOf(cfg[c])) = res[c]
         /\ (pc[c] = "write" /\ pc'[c] = "done") => out'[c].kind = "throw"
         /\ store' # store => \E d \in Callers : log'[d].writes > log[d].writes
      ]_vars

\* a call that went through all the steps and returned
C23_Witness ==
    \E c \in Callers :
        /\ pc[c] = "done"
        /\ log[c].reads = 2
        /\ log[c].logins = 1
        /\ log[c].writes = 1
        /\ log[c].sign = "ok"
        /\ out[c].kind = "return"

\* C26: two loginTicketRequests that CreateServiceTA has built and that are
\* still on their way carry different uniqueIds.
C26_UniqueIds ==
    \A c1, c2 \in Callers :
        (c1 # c2 /\ tra[c1] # NoTra /\ tra[c2] # NoTra)
            => tra[c1].uniqueId # tra[c2].uniqueId

\* C28: the token and the sign a call returns are those of the one value
\* the bucket holds under the call's key at the read that returns, also when
\* another caller has overwritten the key since this call's write.
C28_OneRecord ==
    [][\A c \in Callers :
         (pc[c] = "read" /\ pc'[c] = "done" /\ out'[c].kind = "return")
            => /\ IF log[c].reads = 0 THEN ~log'[c].fault1 ELSE ~log'[c].fault2
               /\ CredentialsOf(Stored(store, KeyOf(cfg[c])), out'[c])
      ]_vars

\* both callers refreshed and wrote, and both returned the credentials of
\* the same ticket: one of them returned what the other wrote
C28_Witness ==
    /\ \A c \in Callers :
         /\ log[c].writes = 1
         /\ log[c].reads = 2
         /\ out[c].kind = "return"
    /\ \A c1, c2 \in Callers :
         /\ out[c1].token = out[c2].token
         /\ out[c1].sign = out[c2].sign

---------------------------------------------------------------------------
(* Calls on Afip instances of any options, for any service *)

\* the service names a caller asks a ticket for: the two adapters' and, through
\* Afip.WebService, any other
AnyServices == {"wsfe", "wsfe-production"}

AnyConfigs == {c \in Configs : c.service \in AnyServices}

InitKeys ==
    /\ store = [k \in Keys |-> NoObject]
    /\ cfg = [c \in Callers |-> MainConfig]
    /\ InitCallers

\* new Afip(options).GetServiceTA(service)
GetServiceTAOf(c) == \E config \in AnyConfigs : Call(c, config)

NextKeys ==
    \/ \E c \in Callers : GetServiceTAOf(c)
    \/ \E c \in Callers : ReadDone(c)
    \/ \E c \in Callers : CertKey(c)
    \/ \E c \in Callers : Login(c)
    \/ \E c \in Callers : WriteDone(c)

SpecKeys == InitKeys /\ [][NextKeys]_vars

\* C8: two calls that differ in principal, service or environment never work
\* on the same object of the bucket.
C8_KeysInjective ==
    \A c1, c2 \in Callers :
        (pc[c1] # "idle" /\ pc[c2] # "idle" /\ cfg[c1] # cfg[c2])
            => KeyOf(cfg[c1]) # KeyOf(cfg[c2])

---------------------------------------------------------------------------
(* new Afip(options): what the constructor makes of the production option *)

\* what a caller may give as options['production']; JSUndefined: not given
GivenProduction ==
    {JSBoolean(TRUE), JSBoolean(FALSE), JSString("true"), JSNumber(1), JSUndefined}

\* a plausible slip: any truthy value taken for production
Production_Truthy(given) ==
    CASE given.t = "boolean" -> given.v
      [] given.t = "string"  -> given.v # ""
      [] given.t = "number"  -> given.v # 0
      [] OTHER               -> FALSE

\* options['production'] as the constructor leaves it: false when it is not
\* given, false when it !== true
Production(given) == StrictEquals(given, JSBoolean(TRUE))

\* the options of the instance and the service asked, with what was given
\* for production kept beside them
Afip(CUIT, given, service) ==
    [CUIT |-> CUIT, service |-> service, production |-> Production(given), given |-> given]

\* new Afip(options).GetServiceTA(service)
NewAfip(c) ==
    \E CUIT \in CUITs, given \in GivenProduction, service \in AnyServices :
        Call(c, Afip(CUIT, given, service))

NextOptions ==
    \/ \E c \in GwCallers : NewAfip(c)
    \/ \E c \in GwCallers : ReadDone(c)
    \/ \E c \in GwCallers : CertKey(c)
    \/ \E c \in GwCallers : Login(c)
    \/ \E c \in GwCallers : WriteDone(c)

SpecOptions == InitKeys /\ [][NextOptions]_vars

\* the name the claim gives the ticket file of a call
NamedKey(config) ==
    "TA-" \o config.CUIT \o "-" \o config.service
          \o (IF config.given.t = "boolean" /\ config.given.v THEN "-production" ELSE "")
          \o ".json"

\* C22: the key GetServiceTA reads and the key CreateServiceTA writes are
\* both 'TA-<CUIT>-<service>.json', with '-production' before '.json' exactly
\* when production was given as the boolean true; no other object of the
\* bucket is written.
C22_KeyNaming ==
    \A c \in GwCallers :
        pc[c] # "idle" =>
            /\ log[c].reads >= 1 => log[c].readKey = NamedKey(cfg[c])
            /\ log[c].writes >= 1 => log[c].writeKey = NamedKey(cfg[c])
            /\ \A k \in Keys : store[k].exists => k = NamedKey(cfg[c])

\* a production instance has read, written and read again its ticket file
C22_Witness ==
    \E c \in GwCallers :
        /\ cfg[c].production
        /\ log[c].writes = 1
        /\ log[c].reads = 2
        /\ store[taFilePath(cfg[c].CUIT, cfg[c].service, TRUE)].exists

---------------------------------------------------------------------------
(* The S3Connection classes on their own: writes and reads of ticket files *)

\* the ticket files the calls on the bucket work on
FileNames == {KeyOf(MainConfig), KeyOf([MainConfig EXCEPT !.production = TRUE])}

InitS3 ==
    /\ store = [k \in Keys |-> NoObject]
    /\ cfg = [c \in Callers |-> MainConfig]
    /\ InitCallers

\* s3Connection.writeFileS3(fileName, JSON.stringify(t)) settles; the caller
\* keeps t, as CreateServiceTA keeps the login response it writes
WriteFile(c) ==
    /\ log[c].writes < MaxWrites
    /\ \E fileName \in FileNames, t \in {OriginalTicket, ExpiredTicket}, ok \in BOOLEAN :
         IF ok
         THEN /\ store' = writeFileS3(store, fileName, JSONstringify(t))
              /\ out' = [out EXCEPT ![c] = [kind |-> "written", fileName |-> fileName]]
              /\ res' = [res EXCEPT ![c] = t]
              /\ log' = [log EXCEPT ![c].writes = @ + 1, ![c].writeKey = fileName]
         ELSE /\ store' = store
              /\ out' = [out EXCEPT ![c] = Thrown("ServiceUnavailable", "")]
              /\ UNCHANGED <<res, log>>
    /\ UNCHANGED <<now, pc, cfg, firstTry, tra, nextId, issued, gw, job, afip>>

\* s3Connection.readFileS3(fileName) settles, for either class
ReadFile(c) ==
    /\ \E backend \in Backends, fileName \in FileNames, fault \in BOOLEAN :
         out' = [out EXCEPT ![c] =
                   [kind |-> "read", backend |-> backend, fileName |-> fileName,
                    existed |-> store[fileName].exists, fault |-> fault,
                    result |-> readFile(backend, store, fileName, fault)]]
    /\ UNCHANGED <<store, now, pc, cfg, firstTry, tra, res, log, nextId, issued, gw, job, afip>>

NextS3 ==
    \/ \E c \in Callers : WriteFile(c)
    \/ \E c \in Callers : ReadFile(c)

SpecS3 == InitS3 /\ [][NextS3]_vars

C13_NotFoundResolves ==
    \A c \in Callers :
        out[c].kind = "read" =>
            /\ (~out[c].fault /\ ~out[c].existed)
                  => /\ ~out[c].result.threw
                     /\ ~Truthy(out[c].result.value)
            /\ out[c].fault => out[c].result.threw

\* the same, for the class built with (s3Config, bucket, folder) alone
NotFoundResolvesFolder ==
    \A c \in Callers :
        (out[c].kind = "read" /\ out[c].backend = "S3ConnectionFolder") =>
            /\ (~out[c].fault /\ ~out[c].existed)
                  => /\ ~out[c].result.threw
                     /\ ~Truthy(out[c].result.value)
            /\ out[c].fault => out[c].result.threw

---------------------------------------------------------------------------
(* The adapters: ElectronicBilling (wsfe) and ExportElectronicBilling (wsfex) *)

Families == {"wsfe", "wsfex"}

\* the operations of each adapter that the model sends
Operations(family) ==
    IF family = "wsfe"
    THEN {"FEDummy", "FECAESolicitar", "FECompUltimoAutorizado", "FECompConsultar"}
    ELSE {"FEXDummy", "FEXGetLast_CMP", "FEXAuthorize"}

\* the operation getServerStatus() of each adapter sends
getServerStatus(family) == IF family = "wsfe" THEN "FEDummy" ELSE "FEXDummy"

\* a JavaScript array, told from an object by Array.isArray
Arr(s) == [array |-> s]

IsArray(x) == "array" \in DOMAIN x

\* a plausible slip: the properties the target has already are kept
ObjectAssign_TargetWins(target, source) ==
    [f \in DOMAIN target \cup DOMAIN source |->
        IF f \in DOMAIN target THEN target[f] ELSE source[f]]

\* Object.assign(target, source)
ObjectAssign(target, source) ==
    [f \in DOMAIN target \cup DOMAIN source |->
        IF f \in DOMAIN source THEN source[f] ELSE target[f]]

EmptyObject == <<>>

\* getWSInitialRequest returns {} before it asks for a ticket: both adapters
\* compare the operation with 'FEDummy'
ReturnsEmpty(family, operation) == operation = "FEDummy"

\* what getWSInitialRequest returns once GetServiceTA has returned ta
getWSInitialRequest(family, operation, params, ta, CUIT) ==
    LET auth == [Token |-> ta.token, Sign |-> ta.sign, Cuit |-> CUIT]
    IN  IF family = "wsfex" /\ operation = "FEXGetLast_CMP"
        THEN [Auth |-> ObjectAssign(auth, [Pto_venta |-> Get(params, "Pto_venta"),
                                           Cbte_Tipo |-> Get(params, "Cbte_Tipo")])]
        ELSE [Auth |-> auth]

\* the Error thrown for an entry: its message is '(code) msg'; the second
\* argument of new Error() sets no code property
RemoteError(code, msg) ==
    [kind |-> "throw", error |-> "(" \o ToString(code) \o ") " \o msg, code |-> Undefined]

\* a plausible slip: the observations of a rejected detail response are not
\* put under Errors
UnwrapDetail_NoObservations(operation, r) ==
    IF operation = "FECAESolicitar" /\ "FeDetResp" \in DOMAIN r
    THEN LET d  == r.FeDetResp.FECAEDetResponse
             d0 == IF IsArray(d) THEN d.array[1] ELSE d
         IN  [r EXCEPT !.FeDetResp = [FECAEDetResponse |-> d0]]
    ELSE r

\* ElectronicBilling._checkErrors: the result subtree as it leaves the first
\* block (the detail response unwrapped, the observations put under Errors)
UnwrapDetail(operation, r) ==
    IF operation = "FECAESolicitar" /\ "FeDetResp" \in DOMAIN r
    THEN LET d  == r.FeDetResp.FECAEDetResponse
             d0 == IF IsArray(d) THEN d.array[1] ELSE d
             r1 == [r EXCEPT !.FeDetResp = [FECAEDetResponse |-> d0]]
         IN  IF "Observaciones" \in DOMAIN d0 /\ d0.Resultado # "A"
             THEN ObjectAssign(r1, [Errors |-> [Err |-> d0.Observaciones.Obs]])
             ELSE r1
    ELSE r

\* ElectronicBilling._checkErrors: Running when it throws nothing
checkErrors_wsfe(operation, r) ==
    LET r2 == UnwrapDetail(operation, r)
    IN  IF "Errors" \in DOMAIN r2
        THEN LET err == IF IsArray(r2.Errors.Err) THEN r2.Errors.Err.array[1]
                        ELSE r2.Errors.Err
             IN  RemoteError(err.Code, err.Msg)
        ELSE Running

\* ExportElectronicBilling._checkErrors: FEXErr.ErrCode of an array is
\* undefined, and undefined != 0
checkErrors_wsfex(operation, r) ==
    IF "FEXErr" \in DOMAIN r /\ (IsArray(r.FEXErr) \/ r.FEXErr.ErrCode # 0)
    THEN LET err == IF IsArray(r.FEXErr) THEN r.FEXErr.array[1] ELSE r.FEXErr
         IN  IF err.ErrCode # 0 THEN RemoteError(err.ErrCode, err.ErrMsg) ELSE Running
    ELSE Running

checkErrors(family, operation, r) ==
    IF family = "wsfe" THEN checkErrors_wsfe(operation, r)
    ELSE checkErrors_wsfex(operation, r)

\* the result subtree the caller of executeRequest gets
ResultOf(family, operation, r) ==
    IF family = "wsfe" THEN UnwrapDetail(operation, r) ELSE r

\* ElectronicBilling.getVoucherInfo, from the outcome o of its executeRequest:
\* the catch returns null for an error whose code property is 602 and throws
\* any other on; result.ResultGet of null is a TypeError
getVoucherInfo(o) ==
    IF o.kind = "throw"
    THEN IF o.code = 602 THEN Thrown("TypeError", "") ELSE o
    ELSE [kind |-> "result", value |-> Get(o.value, "ResultGet")]

---------------------------------------------------------------------------
(* What the remote services may answer *)

Codes == {0, 602, 10016}

Msg(code) == IF code = 0 THEN "OK" ELSE IF code = 602 THEN "No existen datos" ELSE "Rechazado"

ArraysOf(S) == UNION {[1..n -> S] : n \in 1..MaxArr}

\* wsfe: Errors.Err entries and the observations of a detail response
ErrEntries == {[Code |-> c, Msg |-> Msg(c)] : c \in Codes}

ObsEntries == {[Code |-> 602, Msg |-> Msg(602)]}

Details ==
    {[Resultado |-> x] : x \in {"A", "R"}}
    \cup {[Resultado |-> x, Observaciones |-> [Obs |-> o]] : x \in {"A", "R"}, o \in ObsEntries}

WithErrors(base) ==
    {base}
    \cup {ObjectAssign(base, [Errors |-> [Err |-> e]]) : e \in ErrEntries}
    \cup {ObjectAssign(base, [Errors |-> [Err |-> Arr(a)]]) : a \in ArraysOf(ErrEntries)}

WithDetails(base) ==
    {base}
    \cup {ObjectAssign(base, [FeDetResp |-> [FECAEDetResponse |-> d]]) : d \in Details}
    \cup {ObjectAssign(base, [FeDetResp |-> [FECAEDetResponse |-> Arr(a)]]) : a \in ArraysOf(Details)}

\* wsfex: FEXErr
FEXErrEntries == {[ErrCode |-> c, ErrMsg |-> Msg(c)] : c \in Codes}

WithFEXErr(base) ==
    {base}
    \cup {ObjectAssign(base, [FEXErr |-> e]) : e \in FEXErrEntries}
    \cup {ObjectAssign(base, [FEXErr |-> Arr(a)]) : a \in ArraysOf(FEXErrEntries)}

\* the result subtrees an operation may come back with
Responses(family, operation) ==
    IF family = "wsfe"
    THEN CASE operation = "FECAESolicitar" ->
                UNION {WithErrors(r) : r \in WithDetails([Reproceso |-> "N"])}
           [] operation = "FECompConsultar" ->
                WithErrors([ResultGet |-> [CbteDesde |-> 1]]) \cup WithErrors(EmptyObject)
           [] OTHER -> WithErrors([Data |-> 1])
    ELSE WithFEXErr([Data |-> 1])

---------------------------------------------------------------------------
(* executeRequest *)

Gw(family, operation, params, stage, results) ==
    [family |-> family, operation |-> operation, params |-> params, given |-> params,
     stage |-> stage, results |-> results, info |-> Running]

\* the service an adapter asks the ticket for
ServiceOf(family) == family

InitGW ==
    /\ \E o \in {NoObject, Object(JSONstringify(OriginalTicket))} :
         store = [k \in Keys |-> IF \E f \in Families :
                                      k = KeyOf([MainConfig EXCEPT !.service = ServiceOf(f)])
                                 THEN o ELSE NoObject]
    /\ cfg = [c \in Callers |-> MainConfig]
    /\ InitCallers

\* an Auth entry a caller may have put in params by itself
CallerAuth == [Auth |-> [Token |-> 0, Sign |-> 0, Cuit |-> "27222222223", Admin |-> TRUE]]

\* adapter.executeRequest(operation, params): getWSInitialRequest returns {}
\* and the request goes out, or GetServiceTA is called
Send(c, family, operation, params) ==
    LET config == [MainConfig EXCEPT !.service = ServiceOf(family)]
    IN  IF ReturnsEmpty(family, operation)
        THEN /\ gw' = [gw EXCEPT ![c] = Gw(family, operation,
                                           ObjectAssign(params, EmptyObject),
                                           "remote", Null)]
             /\ pc' = [pc EXCEPT ![c] = "remote"]
             /\ UNCHANGED <<cfg, firstTry, out, log>>
        ELSE /\ gw' = [gw EXCEPT ![c] = Gw(family, operation, params, "auth", Null)]
             /\ cfg' = [cfg EXCEPT ![c] = config]
             /\ pc' = [pc EXCEPT ![c] = "read"]
             /\ firstTry' = [firstTry EXCEPT ![c] = TRUE]
             /\ out' = [out EXCEPT ![c] = Running]
             /\ log' = [log EXCEPT ![c] = NoLog]

\* a caller calls executeRequest of an adapter
ExecuteRequest(c) ==
    /\ pc[c] = "idle"
    /\ \E family \in Families :
       \E operation \in Operations(family) :
       \E own \in {EmptyObject, CallerAuth} :
         Send(c, family, operation,
              ObjectAssign(IF operation = "FEXGetLast_CMP"
                           THEN [Pto_venta |-> 1, Cbte_Tipo |-> 19]
                           ELSE EmptyObject, own))
    /\ UNCHANGED <<store, now, tra, res, nextId, issued, job, afip>>

\* GetServiceTA has returned: the Auth block is merged into params and the
\* request goes out
Authorized(c) ==
    /\ pc[c] = "done"
    /\ gw[c].stage = "auth"
    /\ out[c].kind = "return"
    /\ gw' = [gw EXCEPT ![c].stage = "remote",
                        ![c].params =
                            ObjectAssign(gw[c].params,
                                         getWSInitialRequest(gw[c].family, gw[c].operation,
                                                             gw[c].params, out[c],
                                                             cfg[c].CUIT))]
    /\ pc' = [pc EXCEPT ![c] = "remote"]
    /\ out' = [out EXCEPT ![c] = Running]
    /\ UNCHANGED <<store, now, cfg, firstTry, tra, res, log, nextId, issued, job, afip>>

\* the remote call settles; _checkErrors runs and executeRequest returns
\* results[operation + 'Result'] or throws; the FECompConsultar of
\* getVoucherInfo runs on through its catch to its return or throw
Answered(c) ==
    /\ pc[c] = "remote"
    /\ \E r \in Responses(gw[c].family, gw[c].operation) :
         LET e == checkErrors(gw[c].family, gw[c].operation, r)
             o == IF e = Running
                  THEN [kind |-> "result",
                        value |-> ResultOf(gw[c].family, gw[c].operation, r)]
                  ELSE e
         IN  /\ gw' = [gw EXCEPT ![c].stage = "finished",
                                 ![c].results = r,
                                 ![c].info = IF gw[c].operation = "FECompConsultar"
                                             THEN getVoucherInfo(o) ELSE Running]
             /\ out' = [out EXCEPT ![c] = o]
    /\ pc' = [pc EXCEPT ![c] = "done"]
    /\ UNCHANGED <<store, now, cfg, firstTry, tra, res, log, nextId, issued, job, afip>>

NextGW ==
    \/ \E c \in GwCallers : ExecuteRequest(c)
    \/ \E c \in GwCallers : ReadDone(c)
    \/ \E c \in GwCallers : CertKey(c)
    \/ \E c \in GwCallers : Login(c)
    \/ \E c \in GwCallers : WriteDone(c)
    \/ \E c \in GwCallers : Authorized(c)
    \/ \E c \in GwCallers : Answered(c)

SpecGW == InitGW /\ [][NextGW]_vars

---------------------------------------------------------------------------
(* Claims on executeRequest *)

\* the entries of a value that is one entry or an array of entries
Items(x) == IF IsArray(x) THEN {x.array[i] : i \in DOMAIN x.array} ELSE {x}

\* the result subtree holds an entry with a non-zero code in one of the shapes
\* of its family: Errors.Err, the observations of a detail response that is
\* not accepted, FEXErr
HasNonZeroEntry(family, operation, r) ==
    IF family = "wsfe"
    THEN \/ /\ "Errors" \in DOMAIN r
            /\ \E e \in Items(r.Errors.Err) : e.Code # 0
         \/ /\ operation = "FECAESolicitar"
            /\ "FeDetResp" \in DOMAIN r
            /\ \E d \in Items(r.FeDetResp.FECAEDetResponse) :
                 /\ d.Resultado # "A"
                 /\ "Observaciones" \in DOMAIN d
                 /\ \E o \in Items(d.Observaciones.Obs) : o.Code # 0
    ELSE /\ "FEXErr" \in DOMAIN r
         /\ \E e \in Items(r.FEXErr) : e.ErrCode # 0

\* C6: a response that holds an entry with a non-zero code, in any of the
\* error shapes of its family and at any place of an array, makes
\* executeRequest throw.
C6_ErrorsSurface ==
    \A c \in Callers :
        ( /\ gw[c].stage = "finished"
          /\ HasNonZeroEntry(gw[c].family, gw[c].operation, gw[c].results) )
            => out[c].kind = "throw"

\* C7: the health-check operation of each adapter (FEDummy, FEXDummy) goes out
\* with no GetServiceTA call and no Auth block; every other operation goes
\* out after GetServiceTA, with the token, the sign and the CUIT under Auth.
C7_AuthExceptHealthCheck ==
    \A c \in Callers :
        gw[c].stage \in {"remote", "finished"} =>
            IF gw[c].operation = getServerStatus(gw[c].family)
            THEN /\ "Auth" \notin DOMAIN gw[c].params
                 /\ log[c].reads = 0
            ELSE /\ "Auth" \in DOMAIN gw[c].params
                 /\ log[c].reads >= 1
                 /\ gw[c].params.Auth.Cuit = cfg[c].CUIT
                 /\ \E t \in Tickets :
                      CredentialsOf(t, [token |-> gw[c].params.Auth.Token,
                                        sign |-> gw[c].params.Auth.Sign])

\* the three shapes wsfe reports one entry in: Errors.Err as the entry, as an
\* array of that one entry, and as the observation of a rejected detail
ScalarShape(e) == [Reproceso |-> "N", Errors |-> [Err |-> e]]

ArrayShape(e) == [Reproceso |-> "N", Errors |-> [Err |-> Arr(<<e>>)]]

ObservationShape(e) ==
    [Reproceso |-> "N",
     FeDetResp |-> [FECAEDetResponse |-> [Resultado |-> "R", Observaciones |-> [Obs |-> e]]]]

ShapesOf(e) == {ScalarShape(e), ArrayShape(e), ObservationShape(e)}

\* C16: a FECAESolicitar whose response reports an entry in one of the three
\* shapes ends with an error thrown, and that error is the one _checkErrors
\* throws for the same entry in each of the other two shapes: the same code
\* and message whatever the shape.
C16_ShapesSameError ==
    \A c \in Callers :
        \A e \in ObsEntries :
            ( /\ gw[c].stage = "finished"
              /\ gw[c].operation = "FECAESolicitar"
              /\ gw[c].results \in ShapesOf(e) )
                => /\ out[c].kind = "throw"
                   /\ \A r \in ShapesOf(e) :
                        checkErrors(gw[c].family, gw[c].operation, r) = out[c]

\* a FECAESolicitar answered with the entry as the observation of a rejected
\* detail response, and the error thrown for it
C16_Witness ==
    \E c \in Callers :
        \E e \in ObsEntries :
            /\ gw[c].stage = "finished"
            /\ gw[c].operation = "FECAESolicitar"
            /\ gw[c].results = ObservationShape(e)
            /\ out[c].kind = "throw"

\* C17: the error executeRequest throws for a response, of either adapter,
\* has a code property that holds the code of the entry its message was made
\* from.
C17_ErrorCarriesCode ==
    \A c \in Callers :
        (gw[c].stage = "finished" /\ out[c].kind = "throw")
            => out[c].error = "(" \o ToString(out[c].code) \o ") " \o Msg(out[c].code)

\* the code of the entry _checkErrors of wsfe makes its error from; 0 when it
\* throws nothing
ReportedCode(operation, r) ==
    LET r2 == UnwrapDetail(operation, r)
    IN  IF "Errors" \in DOMAIN r2
        THEN (IF IsArray(r2.Errors.Err) THEN r2.Errors.Err.array[1] ELSE r2.Errors.Err).Code
        ELSE 0

\* C18: getVoucherInfo returns null when the response reports code 602, and
\* throws on the error of executeRequest for any other error reported.
C18_VoucherInfoNullOn602 ==
    \A c \in Callers :
        ( /\ gw[c].stage = "finished"
          /\ gw[c].operation = "FECompConsultar"
          /\ "Errors" \in DOMAIN gw[c].results )
            => IF ReportedCode(gw[c].operation, gw[c].results) = 602
               THEN gw[c].info = [kind |-> "result", value |-> Null]
               ELSE gw[c].info = out[c] /\ out[c].kind = "throw"

\* C19: when executeRequest returns, what it returns is the result subtree
\* the remote call came back with, unchanged.
C19_ResultUnchanged ==
    \A c \in Callers :
        (gw[c].stage = "finished" /\ out[c].kind = "result")
            => out[c].value = gw[c].results

\* C25: a response in which no entry carries a non-zero code makes
\* executeRequest return the result subtree and throw nothing, for both
\* adapters.
C25_ZeroCodeNoError ==
    \A c \in Callers :
        ( /\ gw[c].stage = "finished"
          /\ ~HasNonZeroEntry(gw[c].family, gw[c].operation, gw[c].results) )
            => out[c].kind = "result"

\* the Auth block made of what GetServiceTA returned and the CUIT of the
\* instance
AuthOf(ta, CUIT) == [Token |-> ta.token, Sign |-> ta.sign, Cuit |-> CUIT]

\* C27, as stated: when GetServiceTA has returned to executeRequest, the
\* Auth block of the request is the token and the sign it returned and the
\* CUIT of the instance and nothing else, and the request goes out as it is
\* then.
C27_AuthExactly ==
    [][\A c \in Callers :
         /\ (gw[c].stage = "auth" /\ gw'[c].stage = "remote")
               => gw'[c].params.Auth = AuthOf(out[c], cfg[c].CUIT)
         /\ (gw[c].stage = "remote" /\ gw'[c].stage = "finished")
               => gw'[c].params = gw[c].params
      ]_vars

\* C27, amended: when GetServiceTA has returned to executeRequest, the Auth
\* block of the request holds the token and the sign it returned and the
\* CUIT of the instance; for FEXGetLast_CMP it holds beside them the
\* Pto_venta and the Cbte_Tipo of params, and for no operation anything
\* else: nothing of an Auth entry the caller gave is in it, and the request
\* goes out as it is then.
C27_AuthOverwritten ==
    [][\A c \in Callers :
         /\ (gw[c].stage = "auth" /\ gw'[c].stage = "remote")
               => LET Auth == gw'[c].params.Auth
                  IN  /\ [f \in {"Token", "Sign", "Cuit"} |-> Auth[f]]
                           = AuthOf(out[c], cfg[c].CUIT)
                      /\ IF gw[c].operation = "FEXGetLast_CMP"
                         THEN /\ DOMAIN Auth = {"Token", "Sign", "Cuit", "Pto_venta", "Cbte_Tipo"}
                              /\ Auth.Pto_venta = gw[c].given.Pto_venta
                              /\ Auth.Cbte_Tipo = gw[c].given.Cbte_Tipo
                         ELSE DOMAIN Auth = {"Token", "Sign", "Cuit"}
                      /\ \A f \in DOMAIN gw[c].given \ {"Auth"} :
                           gw'[c].params[f] = gw[c].given[f]
         /\ (gw[c].stage = "remote" /\ gw'[c].stage = "finished")
               => gw'[c].params = gw[c].params
      ]_vars

\* an authenticated request of a caller that gave an Auth entry of its own
\* has gone out with the Auth block of the instance
C27_Witness ==
    \E c \in Callers :
        /\ gw[c].stage = "finished"
        /\ "Auth" \in DOMAIN gw[c].given
        /\ gw[c].given.Auth.Admin
        /\ log[c].reads >= 1
        /\ "Auth" \in DOMAIN gw[c].params
        /\ gw[c].params.Auth.Cuit = cfg[c].CUIT
        /\ "Admin" \notin DOMAIN gw[c].params.Auth

---------------------------------------------------------------------------
(* The voucher methods of the adapters: getLastVoucher, createVoucher,    *)
(* createNextVoucher.  data is the caller's object: the methods work on   *)
(* it in place, and the request holds that same object.                   *)

\* delete obj[field], for each of the fields
Delete(obj, fields) == [f \in DOMAIN obj \ fields |-> obj[f]]

\* obj[field] = value
Put(obj, field, value) == ObjectAssign(obj, [x \in {field} |-> value])

\* if (obj[field]) obj[field] = { [inner] : obj[field] }
Wrap(obj, field, inner) ==
    IF field \in DOMAIN obj
    THEN [obj EXCEPT ![field] = [x \in {inner} |-> obj[field]]]
    ELSE obj

\* a date as the services give it, 'yyyymmdd', one character after another
Dates == {<<"2", "0", "2", "6", "1", "2", "3", "1">>}

\* formatDate: the first eight digits become yyyy-mm-dd
formatDate(date) ==
    SubSeq(date, 1, 4) \o <<"-">> \o SubSeq(date, 5, 6) \o <<"-">> \o SubSeq(date, 7, 8)

\* the data objects callers hand to the voucher methods of each adapter
Datas(family) ==
    IF family = "wsfe"
    THEN {[PtoVta |-> 1, CbteTipo |-> 6, CantReg |-> 1, CbteDesde |-> 1, CbteHasta |-> 1,
           Iva |-> Arr(<<[Id |-> 5]>>)]}
    ELSE {[Punto_vta |-> 1, Cbte_Tipo |-> 19, Cbte_nro |-> n, Items |-> Arr(<<[Pro_codigo |-> 1]>>)]
            : n \in {1, 2}}

\* the operation getLastVoucher of each adapter sends
GetLastOperation(family) ==
    IF family = "wsfe" THEN "FECompUltimoAutorizado" ELSE "FEXGetLast_CMP"

\* the request getLastVoucher builds when createNextVoucher calls it with
\* the sales point and the type it reads from data
getLastVoucherRequest(family, data) ==
    IF family = "wsfe"
    THEN [PtoVta |-> Get(data, "PtoVta"), CbteTipo |-> Get(data, "CbteTipo")]
    ELSE [Pto_venta |-> Get(data, "Punto_vta"), Cbte_Tipo |-> Get(data, "Cbte_Tipo")]

\* the number getLastVoucher returns from the result of its request
getLastVoucher(family, result) ==
    IF family = "wsfe" THEN result.CbteNro ELSE result.FEXResult_LastCMP.Cbte_nro

\* ElectronicBilling.createVoucher: data as the deletes and the wrappings
\* leave it
DataSent(data) ==
    Wrap(Wrap(Wrap(Wrap(Wrap(Delete(data, {"CantReg", "PtoVta", "CbteTipo"}),
        "Tributos", "Tributo"), "Iva", "AlicIva"), "CbtesAsoc", "CbteAsoc"),
        "Compradores", "Comprador"), "Opcionales", "Opcional")

\* ElectronicBilling.createVoucher: the request; its header is built from
\* data before the deletes, its detail is the data object itself
VoucherRequest(data) ==
    [FeCAEReq |->
       [FeCabReq |-> [CantReg |-> Get(data, "CbteHasta") - Get(data, "CbteDesde") + 1,
                      PtoVta |-> Get(data, "PtoVta"),
                      CbteTipo |-> Get(data, "CbteTipo")],
        FeDetReq |-> [FECAEDetRequest |-> DataSent(data)]]]

\* ExportElectronicBilling.createVoucher: data with the Id set and the
\* wrappings done; the request is { Cmp: data }
ExportDataSent(data, Id) ==
    Wrap(Wrap(Wrap(Wrap(Put(data, "Id", Id),
        "Permisos", "Permiso"), "Cmps_asoc", "Cmp_asoc"), "Items", "Item"),
        "Opcionales", "Opcional")

ExportVoucherRequest(data, Id) == [Cmp |-> ExportDataSent(data, Id)]

\* what createVoucher returns from the result of its request
VoucherResult(family, result) ==
    IF family = "wsfe"
    THEN LET d == IF IsArray(result.FeDetResp.FECAEDetResponse)
                  THEN result.FeDetResp.FECAEDetResponse.array[1]
                  ELSE result.FeDetResp.FECAEDetResponse
         IN  [CAE |-> d.CAE, CAEFchVto |-> formatDate(d.CAEFchVto)]
    ELSE LET a == IF IsArray(result.FEXResultAuth)
                  THEN result.FEXResultAuth.array[1]
                  ELSE result.FEXResultAuth
         IN  [CAE |-> a.Cae, CAEFchVto |-> formatDate(a.Fch_venc_Cae)]

---------------------------------------------------------------------------
(* The billing services, as far as the voucher methods meet them *)

CAEOf(number) == "CAE-" \o ToString(number)

Rejected == [Code |-> 10016, Msg |-> Msg(10016)]

NoFEXErr == [ErrCode |-> 0, ErrMsg |-> Msg(0)]

\* the voucher number and the request Id a request carries; 0 when it
\* carries none
NumberIn(family, operation, params) ==
    CASE operation = "FECAESolicitar" ->
           Get(params.FeCAEReq.FeDetReq.FECAEDetRequest, "CbteDesde")
      [] operation = "FEXAuthorize" -> Get(params.Cmp, "Cbte_nro")
      [] OTHER -> 0

IdIn(family, operation, params) ==
    IF operation = "FEXAuthorize" THEN Get(params.Cmp, "Id") ELSE 0

\* the services authorize a voucher that names its sales point and type and
\* carries the number after the last one authorized (and, for wsfex, an Id
\* above the last one)
Authorizes(state, family, operation, params) ==
    CASE operation = "FECAESolicitar" ->
           /\ params.FeCAEReq.FeCabReq.PtoVta # Undefined
           /\ params.FeCAEReq.FeCabReq.CbteTipo # Undefined
           /\ NumberIn(family, operation, params) = state.last[family] + 1
      [] operation = "FEXAuthorize" ->
           /\ IdIn(family, operation, params) > state.lastId
           /\ NumberIn(family, operation, params) = state.last[family] + 1
      [] OTHER -> FALSE

\* the result subtree the services answer a request with
AfipAnswer(state, family, operation, params) ==
    CASE operation = "FECompUltimoAutorizado" ->
           [PtoVta |-> params.PtoVta, CbteTipo |-> params.CbteTipo,
            CbteNro |-> state.last[family]]
      [] operation = "FECAESolicitar" ->
           IF Authorizes(state, family, operation, params)
           THEN [FeCabResp |-> [Resultado |-> "A"],
                 FeDetResp |-> [FECAEDetResponse |->
                    Arr(<<[Resultado |-> "A",
                           CbteDesde |-> NumberIn(family, operation, params),
                           CAE |-> CAEOf(NumberIn(family, operation, params)),
                           CAEFchVto |-> CHOOSE d \in Dates : TRUE]>>)]]
           ELSE [FeCabResp |-> [Resultado |-> "R"], Errors |-> [Err |-> Arr(<<Rejected>>)]]
      [] operation = "FEXGetLast_CMP" ->
           [FEXResult_LastCMP |-> [Cbte_nro |-> state.last[family]], FEXErr |-> NoFEXErr]
      [] operation = "FEXGetLast_ID" ->
           [FEXResultGet |-> [Id |-> state.lastId], FEXErr |-> NoFEXErr]
      [] operation = "FEXAuthorize" ->
           IF Authorizes(state, family, operation, params)
           THEN [FEXResultAuth |-> [Id |-> IdIn(family, operation, params),
                                    Cbte_nro |-> NumberIn(family, operation, params),
                                    Cae |-> CAEOf(NumberIn(family, operation, params)),
                                    Fch_venc_Cae |-> CHOOSE d \in Dates : TRUE],
                 FEXErr |-> NoFEXErr]
           ELSE [FEXErr |-> [ErrCode |-> 10016, ErrMsg |-> Msg(10016)]]

\* the services after the request: an authorized voucher moves the last
\* number (and the last Id) on; every voucher request is noted as submitted
AfipAfter(state, c, family, operation, params) ==
    IF operation \in {"FECAESolicitar", "FEXAuthorize"}
    THEN LET noted == Append(state.submitted,
                             [by |-> c, family |-> family,
                              number |-> NumberIn(family, operation, params),
                              id |-> IdIn(family, operation, params)])
         IN  IF Authorizes(state, family, operation, params)
             THEN [last |-> [state.last EXCEPT ![family] = NumberIn(family, operation, params)],
                   lastId |-> IF operation = "FEXAuthorize"
                              THEN IdIn(family, operation, params) ELSE state.lastId,
                   submitted |-> noted]
             ELSE [state EXCEPT !.submitted = noted]
    ELSE state

---------------------------------------------------------------------------
(* The voucher methods as steps *)

\* the executeRequest a voucher method awaits has settled: it returned, or
\* GetServiceTA threw
Settled(c) ==
    /\ pc[c] = "done"
    /\ \/ gw[c].stage = "finished"
       \/ gw[c].stage = "auth" /\ out[c].kind = "throw"

\* createVoucher(data) up to its first await: wsfe sends FECAESolicitar,
\* wsfex asks for the last Id first
BeginCreateVoucher(c, j, data) ==
    IF j.family = "wsfe"
    THEN /\ job' = [job EXCEPT ![c] =
                      [j EXCEPT !.step = "create",
                                !.data = DataSent(data),
                                !.sent = Append(j.sent, VoucherRequest(data))]]
         /\ Send(c, "wsfe", "FECAESolicitar", VoucherRequest(data))
    ELSE /\ job' = [job EXCEPT ![c] = [j EXCEPT !.step = "id", !.data = data]]
         /\ Send(c, "wsfex", "FEXGetLast_ID", EmptyObject)

\* the method rejects with the error its executeRequest threw
Reject(c) ==
    /\ job' = [job EXCEPT ![c].step = "failed", ![c].result = out[c]]
    /\ UNCHANGED <<pc, cfg, firstTry, out, log, gw>>

\* adapter.createNextVoucher(data) is called: getLastVoucher sends its request
CreateNextVoucher(c) ==
    /\ pc[c] = "idle"
    /\ \E family \in Families : \E data \in Datas(family) :
         /\ job' = [job EXCEPT ![c] =
                      [NoJob EXCEPT !.method = "createNextVoucher", !.family = family,
                                    !.step = "last", !.data = data]]
         /\ Send(c, family, GetLastOperation(family), getLastVoucherRequest(family, data))
    /\ UNCHANGED <<store, now, tra, res, nextId, issued, afip>>

\* adapter.createVoucher(data) is called
CreateVoucher(c) ==
    /\ pc[c] = "idle"
    /\ \E family \in Families : \E data \in Datas(family) :
         BeginCreateVoucher(c, [NoJob EXCEPT !.method = "createVoucher", !.family = family],
                            data)
    /\ UNCHANGED <<store, now, tra, res, nextId, issued, afip>>

\* createNextVoucher: getLastVoucher has settled; the number is put into
\* data as CbteDesde and CbteHasta and createVoucher(data) begins
LastKnown(c) ==
    /\ Settled(c)
    /\ job[c].step = "last"
    /\ IF out[c].kind = "result"
       THEN LET voucherNumber == getLastVoucher(job[c].family, out[c].value) + 1
                data == Put(Put(job[c].data, "CbteDesde", voucherNumber),
                            "CbteHasta", voucherNumber)
            IN  BeginCreateVoucher(c, [job[c] EXCEPT !.number = voucherNumber], data)
       ELSE Reject(c)
    /\ UNCHANGED <<store, now, tra, res, nextId, issued, afip>>

\* ExportElectronicBilling.createVoucher: getLastId has settled; the Id is
\* put into data and FEXAuthorize is sent
IdKnown(c) ==
    /\ Settled(c)
    /\ job[c].step = "id"
    /\ IF out[c].kind = "result"
       THEN LET Id == out[c].value.FEXResultGet.Id + 1
            IN  /\ job' = [job EXCEPT ![c].step = "create",
                                      ![c].data = ExportDataSent(job[c].data, Id),
                                      ![c].sent = Append(@, ExportVoucherRequest(job[c].data, Id))]
                /\ Send(c, "wsfex", "FEXAuthorize", ExportVoucherRequest(job[c].data, Id))
       ELSE Reject(c)
    /\ UNCHANGED <<store, now, tra, res, nextId, issued, afip>>

\* createVoucher: its request has settled; createVoucher returns the CAE and
\* its date, and createNextVoucher adds voucherNumber
Created(c) ==
    /\ Settled(c)
    /\ job[c].step = "create"
    /\ IF out[c].kind = "result"
       THEN LET r == VoucherResult(job[c].family, out[c].value)
            IN  /\ job' = [job EXCEPT ![c].step = "returned",
                                      ![c].result =
                                         [kind |-> "result",
                                          value |-> IF job[c].method = "createNextVoucher"
                                                    THEN Put(r, "voucherNumber", job[c].number)
                                                    ELSE r]]
                /\ UNCHANGED <<pc, cfg, firstTry, out, log, gw>>
       ELSE Reject(c)
    /\ UNCHANGED <<store, now, tra, res, nextId, issued, afip>>

\* the caller of createVoucher calls it again with the same data object
Retry(c) ==
    /\ job[c].method = "createVoucher"
    /\ job[c].step \in {"returned", "failed"}
    /\ ~job[c].retried
    /\ BeginCreateVoucher(c, [job[c] EXCEPT !.retried = TRUE, !.result = Running],
                          job[c].data)
    /\ UNCHANGED <<store, now, tra, res, nextId, issued, afip>>

\* the services answer the request of a voucher method; _checkErrors runs
\* and executeRequest returns or throws
AfipAnswered(c) ==
    /\ pc[c] = "remote"
    /\ job[c].method # ""
    /\ LET r == AfipAnswer(afip, gw[c].family, gw[c].operation, gw[c].params)
           e == checkErrors(gw[c].family, gw[c].operation, r)
       IN  /\ gw' = [gw EXCEPT ![c].stage = "finished", ![c].results = r]
           /\ out' = [out EXCEPT ![c] =
                        IF e = Running
                        THEN [kind |-> "result",
                              value |-> ResultOf(gw[c].family, gw[c].operation, r)]
                        ELSE e]
    /\ afip' = AfipAfter(afip, c, gw[c].family, gw[c].operation, gw[c].params)
    /\ pc' = [pc EXCEPT ![c] = "done"]
    /\ UNCHANGED <<store, now, cfg, firstTry, tra, res, log, nextId, issued, job>>

\* one caller after another: every voucher method runs to its end before
\* the next begins
NextVoucher ==
    \/ \E c \in GwCallers : CreateNextVoucher(c)
    \/ \E c \in GwCallers : CreateVoucher(c)
    \/ \E c \in GwCallers : LastKnown(c)
    \/ \E c \in GwCallers : IdKnown(c)
    \/ \E c \in GwCallers : Created(c)
    \/ \E c \in GwCallers : Retry(c)
    \/ \E c \in GwCallers : ReadDone(c)
    \/ \E c \in GwCallers : CertKey(c)
    \/ \E c \in GwCallers : Login(c)
    \/ \E c \in GwCallers : WriteDone(c)
    \/ \E c \in GwCallers : Authorized(c)
    \/ \E c \in GwCallers : AfipAnswered(c)

SpecVoucher == InitGW /\ [][NextVoucher]_vars

\* GetServiceTA of the caller has met no failure: the bucket answered both
\* reads, the request was signed, the WSAA gave a complete ticket and the
\* write went through
Smooth(c) ==
    /\ ~log[c].fault1
    /\ ~log[c].fault2
    /\ log[c].sign # "failed"
    /\ log[c].login \in {NoLog.login, "complete"}
    /\ out[c] # Thrown(AuthorizationError, "undefined")

\* two callers whose voucher methods run at the same time, interleaved at
\* their awaits, while the bucket and the WSAA work
NextConcurrent ==
    \/ \E c \in Callers : CreateNextVoucher(c)
    \/ \E c \in Callers : CreateVoucher(c)
    \/ \E c \in Callers : LastKnown(c)
    \/ \E c \in Callers : IdKnown(c)
    \/ \E c \in Callers : Created(c)
    \/ \E c \in Callers : ReadDone(c) /\ Smooth(c)'
    \/ \E c \in Callers : CertKey(c) /\ Smooth(c)'
    \/ \E c \in Callers : Login(c) /\ Smooth(c)'
    \/ \E c \in Callers : WriteDone(c) /\ Smooth(c)'
    \/ \E c \in Callers : Authorized(c)
    \/ \E c \in Callers : AfipAnswered(c)

SpecConcurrent == InitGW /\ [][NextConcurrent]_vars

---------------------------------------------------------------------------
(* Claims on the voucher methods *)

\* the voucher request a voucher method sent last
LastSent(j) == j.sent[Len(j.sent)]

\* the voucher number the remote service reads in a voucher request:
\* CbteDesde of the detail for wsfe, Cbte_nro of the voucher for wsfex
SubmittedNumber(family, request) ==
    IF family = "wsfe"
    THEN NumberIn(family, "FECAESolicitar", request)
    ELSE NumberIn(family, "FEXAuthorize", request)

\* C24: createNextVoucher submits a voucher whose number is the last
\* authorized number + 1, in both adapters, and what it returns holds that
\* same number as voucherNumber, with CAE and CAEFchVto
C24_NextVoucherNumber ==
    \A c \in Callers :
        job[c].method = "createNextVoucher" /\ job[c].sent # <<>> =>
            /\ SubmittedNumber(job[c].family, LastSent(job[c])) = job[c].number
            /\ job[c].step = "returned" =>
                   /\ job[c].result.value.voucherNumber
                        = SubmittedNumber(job[c].family, LastSent(job[c]))
                   /\ {"CAE", "CAEFchVto"} \subseteq DOMAIN job[c].result.value

\* C30: createVoucher leaves the data object of its caller as it was, so a
\* second createVoucher with the same object sends the FECAESolicitar
\* request the first one sent
C30_DataUnchanged ==
    \A c \in Callers :
        job[c].method = "createVoucher" /\ job[c].family = "wsfe" =>
            /\ job[c].data \in Datas("wsfe")
            /\ Len(job[c].sent) = 2 => job[c].sent[1] = job[c].sent[2]

\* C29: two createNextVoucher calls running at the same time never submit
\* the same voucher number to a service, and two createVoucher calls of the
\* export adapter never submit the same request Id
C29_NoDuplicateNumbers ==
    \A i, k \in DOMAIN afip.submitted :
        LET s == afip.submitted[i]
            t == afip.submitted[k]
        IN  i # k /\ s.by # t.by /\ s.family = t.family =>
               /\ job[s.by].method = "createNextVoucher"
                    /\ job[t.by].method = "createNextVoucher" => s.number # t.number
               /\ s.family = "wsfex" => s.id # t.id

====
